---------------------------- MODULE Spec2Model ----------------------------
(* Hospital management backend: the Patient and Room collections, the     *)
(* PriorityAllocator and the request handlers of PatientController and    *)
(* RoomController.  Every await on the store is one step of a request, so *)
(* that concurrent requests interleave exactly where the handlers yield.  *)
EXTENDS Integers, FiniteSets, Sequences, TLC

(* ---------------------------------------------------------------------- *)
(* Bounds                                                                 *)
(* ---------------------------------------------------------------------- *)
MaxPatients == 3
MaxRooms == 2
MaxFloor == 2
MaxOps == 3
MaxConcurrentOps == 2
NumProcs == 2
SeedPatients == 2
SeedRooms == 2

PatientIds == 1..MaxPatients
RoomIds == 1..MaxRooms
RoomNumbers == 1..MaxRooms
Floors == 1..MaxFloor
Procs == 1..NumProcs
NULL == 0

(* ---------------------------------------------------------------------- *)
(* Schemas                                                                *)
(* ---------------------------------------------------------------------- *)
Conditions == {"Critical", "Stable", "Normal"}
PatientStatuses == {"Admitted", "Discharged", "Pending"}
RoomTypes == {"ICU", "General", "Private", "Emergency", "Surgery"}
RoomStatuses == {"Available", "Occupied", "Maintenance", "Cleaning"}
Absent == "absent"

NoPatient ==
  [exists |-> FALSE, condition |-> "Normal", priority |-> 0,
   status |-> "Pending", assignedRoom |-> NULL, admissionDate |-> 0,
   dischargeDate |-> NULL]

NoRoom ==
  [exists |-> FALSE, roomNumber |-> 0, type |-> "General", floor |-> 0,
   occupied |-> FALSE, patientId |-> NULL, status |-> "Available"]

\* patientSchema.pre('save'): priority from condition
PriorityOf(condition) ==
  CASE condition = "Critical" -> 1
    [] condition = "Stable" -> 3
    [] OTHER -> 5

\* a new Patient document from a request body, after the pre-save hook
NewPatient(condition, status, assignedRoom, now) ==
  [exists |-> TRUE, condition |-> condition,
   priority |-> PriorityOf(condition),
   status |-> IF status = Absent THEN "Admitted" ELSE status,
   assignedRoom |-> assignedRoom, admissionDate |-> now,
   dischargeDate |-> NULL]

\* roomSchema.pre('save') applied to a new Room document: a body that sets
\* patientId makes the hook derive occupied and status from it
NewRoom(roomNumber, type, floor, status, occupied, patientId) ==
  [exists |-> TRUE, roomNumber |-> roomNumber, type |-> type,
   floor |-> floor,
   occupied |-> IF patientId # NULL THEN TRUE ELSE occupied,
   patientId |-> patientId,
   status |-> IF patientId # NULL THEN "Occupied"
              ELSE IF status = Absent THEN "Available" ELSE status]

(* ---------------------------------------------------------------------- *)
(* PriorityAllocator: queries                                             *)
(* ---------------------------------------------------------------------- *)
WaitingAnyStatus(P) ==
  {p \in PatientIds : P[p].exists /\ P[p].assignedRoom = NULL}

\* the filter of getHighestPriorityPatient / getAllUnassignedPatients
Waiting(P) ==
  {p \in PatientIds : /\ P[p].exists
                      /\ P[p].status \in {"Admitted", "Pending"}
                      /\ P[p].assignedRoom = NULL}

PatientBeforeByPriority(P, a, b) ==
  P[a].priority < P[b].priority

\* sort({ priority: 1, admissionDate: 1 })
PatientBefore(P, a, b) ==
  \/ P[a].priority < P[b].priority
  \/ /\ P[a].priority = P[b].priority
     /\ P[a].admissionDate < P[b].admissionDate

getAnyPatient(P) ==
  {p \in PatientIds : P[p].exists}

\* the documents findOne may return: the first ones of the sort order
getHighestPriorityPatient(P) ==
  {p \in Waiting(P) : \A q \in Waiting(P) : ~PatientBefore(P, q, p)}

determineRoomTypeAllGeneral(condition) ==
  "General"

determineRoomType(condition) ==
  CASE condition = "Critical" -> "ICU"
    [] condition = "Stable" -> "General"
    [] condition = "Normal" -> "General"
    [] OTHER -> "General"

RoomBeforeByFloor(R, a, b) ==
  R[a].floor < R[b].floor

idealRoomTypeStablePrivate(condition) ==
  CASE condition = "Critical" -> "ICU"
    [] condition = "Stable" -> "Private"
    [] condition = "Normal" -> "General"
    [] OTHER -> "General"

\* suggestRoomTransfers: the $switch of the $addFields stage
idealRoomType(condition) ==
  CASE condition = "Critical" -> "ICU"
    [] condition = "Stable" -> "General"
    [] condition = "Normal" -> "General"
    [] OTHER -> "General"

\* suggestRoomTransfers: $lookup of assignedRoom in rooms, $unwind, which
\* drops the patients the lookup found no room for, and $match
patientsInWrongRooms(P, R) ==
  {p \in PatientIds : /\ P[p].exists
                      /\ P[p].assignedRoom # NULL
                      /\ R[P[p].assignedRoom].exists
                      /\ R[P[p].assignedRoom].type
                           # idealRoomType(P[p].condition)}

\* sort({ floor: 1, roomNumber: 1 }); roomNumber is a string, a number of the
\* model is its rank in the order the store sorts strings in
RoomBefore(R, a, b) ==
  \/ R[a].floor < R[b].floor
  \/ /\ R[a].floor = R[b].floor
     /\ R[a].roomNumber < R[b].roomNumber

AvailableOfTypesAnyStatus(R, types) ==
  {r \in RoomIds : R[r].exists /\ R[r].type \in types /\ R[r].occupied = FALSE}

\* the filter {type, status: 'Available', occupied: false}
AvailableOfTypes(R, types) ==
  {r \in RoomIds : /\ R[r].exists
                   /\ R[r].type \in types
                   /\ R[r].status = "Available"
                   /\ R[r].occupied = FALSE}

FindNoRoom(R, types) ==
  {}

\* Room.findOne({type, status: 'Available', occupied: false}).sort(...)
FindOneRoom(R, types) ==
  {r \in AvailableOfTypes(R, types) :
     \A q \in AvailableOfTypes(R, types) : ~RoomBefore(R, q, r)}

(* ---------------------------------------------------------------------- *)
(* State                                                                  *)
(* ---------------------------------------------------------------------- *)
VARIABLES
  patients,   \* the Patient collection, by _id
  rooms,      \* the Room collection, by _id
  nextPid,    \* number of Patient documents ever inserted
  nextRid,    \* number of Room documents ever inserted
  ops,        \* requests received so far; also the clock read by Date.now
  proc        \* per request slot: position in the handler and its locals

vars == <<patients, rooms, nextPid, nextRid, ops, proc>>

\* op, a, b: the handler and its patient / room parameters; pid, rid,
\* relRid, kind, ref: locals of the handler and of the allocator; then: where
\* releasePatientFromRoom returns to; code, message, alloc: the response;
\* status: the status of the patient document the handler has read, or the
\* status setRoomStatus was sent; wrote: whether a store operation of the
\* request has changed a document; room0: what the room the request names
\* was when the request arrived; requiredRoomType: the local of
\* autoAllocateRoom; suggestions: the list suggestRoomTransfers returned;
\* events: the events the handler has emitted on the socket; unassignedOnly:
\* the query parameter of getPatientsByPriority; queue: the list it returned
Idle ==
  [pc |-> "idle", op |-> "none", a |-> NULL, b |-> NULL, kind |-> Absent,
   status |-> Absent, ref |-> NULL, pid |-> NULL, rid |-> NULL,
   relRid |-> NULL, then |-> "none", alloc |-> "none", code |-> 0,
   message |-> "none", wrote |-> FALSE, room0 |-> "none",
   requiredRoomType |-> Absent, suggestions |-> {}, events |-> 0,
   unassignedOnly |-> Absent, queue |-> <<>>]

Init ==
  /\ patients = [p \in PatientIds |-> NoPatient]
  /\ rooms = [r \in RoomIds |-> NoRoom]
  /\ nextPid = 0
  /\ nextRid = 0
  /\ ops = 0
  /\ proc = [i \in Procs |-> Idle]

\* seed.js: every sample room and then every sample patient is saved once,
\* no allocation is run
SeedTypes == <<"ICU", "General", "Private">>
SeedConditions == <<"Critical", "Stable", "Normal">>

SeedRoom(r) ==
  NewRoom(r, SeedTypes[((r - 1) % 3) + 1], ((r - 1) % 3) + 1, Absent, FALSE,
          NULL)

SeedPatient(p) ==
  NewPatient(SeedConditions[((p - 1) % 3) + 1], Absent, NULL, p)

SeedInit ==
  /\ patients = [p \in PatientIds |->
                   IF p <= SeedPatients THEN SeedPatient(p) ELSE NoPatient]
  /\ rooms = [r \in RoomIds |->
                IF r <= SeedRooms THEN SeedRoom(r) ELSE NoRoom]
  /\ nextPid = SeedPatients
  /\ nextRid = SeedRooms
  /\ ops = 0
  /\ proc = [i \in Procs |-> Idle]

AllIdle == \A i \in Procs : proc[i].pc = "idle"

(* ---------------------------------------------------------------------- *)
(* PriorityAllocator: writes (findByIdAndUpdate changes nothing when the   *)
(* document does not exist, and runs no save hook)                        *)
(* ---------------------------------------------------------------------- *)
AssignPatientUpdateKeepsStatus(P, patientId, roomId) ==
  IF P[patientId].exists
  THEN [P EXCEPT ![patientId].assignedRoom = roomId]
  ELSE P

\* assignPatientToRoom, first update
AssignPatientUpdate(P, patientId, roomId) ==
  IF P[patientId].exists
  THEN [P EXCEPT ![patientId].assignedRoom = roomId,
                 ![patientId].status = "Admitted"]
  ELSE P

\* assignPatientToRoom, second update
AssignRoomUpdate(R, patientId, roomId) ==
  IF R[roomId].exists
  THEN [R EXCEPT ![roomId].patientId = patientId,
                 ![roomId].occupied = TRUE,
                 ![roomId].status = "Occupied"]
  ELSE R

ReleaseRejectedMissingOnly(P, patientId) ==
  ~P[patientId].exists

\* releasePatientFromRoom: the guard that throws
ReleaseRejected(P, patientId) ==
  ~P[patientId].exists \/ P[patientId].assignedRoom = NULL

\* releasePatientFromRoom, first update
ReleasePatientUpdate(P, patientId, now) ==
  IF P[patientId].exists
  THEN [P EXCEPT ![patientId].assignedRoom = NULL,
                 ![patientId].status = "Discharged",
                 ![patientId].dischargeDate = now]
  ELSE P

ReleaseRoomUpdateAvailable(R, roomId) ==
  IF R[roomId].exists
  THEN [R EXCEPT ![roomId].patientId = NULL,
                 ![roomId].occupied = FALSE,
                 ![roomId].status = "Available"]
  ELSE R

\* releasePatientFromRoom, second update
ReleaseRoomUpdate(R, roomId) ==
  IF R[roomId].exists
  THEN [R EXCEPT ![roomId].patientId = NULL,
                 ![roomId].occupied = FALSE,
                 ![roomId].status = "Cleaning"]
  ELSE R

(* ---------------------------------------------------------------------- *)
(* Controllers: checks                                                    *)
(* ---------------------------------------------------------------------- *)
RoomNotAvailableStatusOnly(room) ==
  room.status # "Available"

\* assignRoom / assignPatient: room.occupied || room.status !== 'Available'
RoomNotAvailable(room) ==
  room.occupied \/ room.status # "Available"

\* releaseRoom: !room.occupied || !room.patientId, patientId populated
RoomNotOccupied(room, P) ==
  \/ ~room.occupied
  \/ room.patientId = NULL
  \/ ~P[room.patientId].exists

\* setRoomStatus: the two rejections before the update
SetStatusRejected(room, status) ==
  \/ status = "Available" /\ room.occupied
  \/ room.status = "Occupied" /\ status # "Occupied" /\ room.patientId # NULL

(* ---------------------------------------------------------------------- *)
(* Request plumbing                                                       *)
(* ---------------------------------------------------------------------- *)
RoomAtArrival(b) ==
  IF b = NULL THEN "none"
  ELSE IF ~rooms[b].exists THEN "missing"
  ELSE IF rooms[b].occupied \/ rooms[b].status # "Available" THEN "busy"
  ELSE "free"

Req(op, a, b) ==
  [Idle EXCEPT !.op = op, !.a = a, !.b = b, !.room0 = RoomAtArrival(b)]

\* the request has made a store operation that changed a document
Mark(lv, changed) ==
  [lv EXCEPT !.wrote = @ \/ changed]

\* req.app.get('io').emit(...)
Emit(lv) ==
  [lv EXCEPT !.events = @ + 1]

\* a request arrives and runs up to its first store operation
Begin(i) ==
  /\ proc[i].pc = "idle"
  /\ ops < MaxOps
  /\ ops' = ops + 1

\* a request in flight resumes after an await
Resume(i, pc) ==
  /\ proc[i].pc = pc
  /\ UNCHANGED ops

Goto(i, lv, pc) ==
  proc' = [proc EXCEPT ![i] = [lv EXCEPT !.pc = pc]]

\* the handler has made its last store operation and builds its response
Done(i, lv, code, message) ==
  proc' = [proc EXCEPT ![i] = [lv EXCEPT !.pc = "respond", !.code = code,
                                         !.message = message]]

\* res.status(code).json({message})
Respond(i) ==
  /\ Resume(i, "respond")
  /\ proc' = [proc EXCEPT ![i] = Idle]
  /\ UNCHANGED <<patients, rooms, nextPid, nextRid>>

(* ---------------------------------------------------------------------- *)
(* PriorityAllocator.autoAllocateRoom                                     *)
(* ---------------------------------------------------------------------- *)
\* autoAllocateRoom returns to its caller: createPatient answers 201
\* whatever the outcome, autoAllocateRooms reports the outcome
AllocReturn(i, lv, outcome) ==
  LET ret == [lv EXCEPT !.alloc = outcome]
      out == IF outcome = "Patient successfully allocated to room"
             THEN Emit(ret) ELSE ret
  IN IF lv.op = "createPatient"
     THEN Done(i, out, 201, "Patient created successfully")
     ELSE Done(i, out, 200, outcome)

\* getHighestPriorityPatient, the test on its result, and requiredRoomType:
\* no caller passes a roomType, so it is determineRoomType(patient.condition)
SelectPatient(i, lv, P) ==
  IF getHighestPriorityPatient(P) = {}
  THEN AllocReturn(i, lv, "No unassigned patients found")
  ELSE \E p \in getHighestPriorityPatient(P) :
         Goto(i, [lv EXCEPT !.pid = p, !.kind = P[p].condition,
                            !.status = P[p].status,
                            !.requiredRoomType =
                               determineRoomType(P[p].condition)],
              "aa_find1")

\* first query of findBestAvailableRoom: the required room type
AaFindExact(i) ==
  /\ Resume(i, "aa_find1")
  /\ LET lv == proc[i]
         found == FindOneRoom(rooms, {lv.requiredRoomType})
     IN IF found # {}
        THEN \E r \in found : Goto(i, [lv EXCEPT !.rid = r], "as_patient")
        ELSE IF lv.kind = "Critical"
             THEN Goto(i, lv, "aa_find2")
             ELSE Goto(i, lv, "aa_find3")
  /\ UNCHANGED <<patients, rooms, nextPid, nextRid>>

\* second query: an ICU room for a Critical patient
AaFindICU(i) ==
  /\ Resume(i, "aa_find2")
  /\ LET lv == proc[i]
         found == FindOneRoom(rooms, {"ICU"})
     IN IF found # {}
        THEN \E r \in found : Goto(i, [lv EXCEPT !.rid = r], "as_patient")
        ELSE AllocReturn(i, lv, "No available rooms found")
  /\ UNCHANGED <<patients, rooms, nextPid, nextRid>>

\* third query: a General or Private room for a patient who is not Critical
AaFindFallback(i) ==
  /\ Resume(i, "aa_find3")
  /\ LET lv == proc[i]
         found == FindOneRoom(rooms, {"General", "Private"})
     IN IF found # {}
        THEN \E r \in found : Goto(i, [lv EXCEPT !.rid = r], "as_patient")
        ELSE AllocReturn(i, lv, "No available rooms found")
  /\ UNCHANGED <<patients, rooms, nextPid, nextRid>>

(* ---------------------------------------------------------------------- *)
(* PriorityAllocator.assignPatientToRoom                                  *)
(* ---------------------------------------------------------------------- *)
AssignPatientWrite(i) ==
  /\ Resume(i, "as_patient")
  /\ patients' = AssignPatientUpdate(patients, proc[i].pid, proc[i].rid)
  /\ Goto(i, Mark(proc[i], patients' # patients), "as_room")
  /\ UNCHANGED <<rooms, nextPid, nextRid>>

AssignRoomWrite(i) ==
  /\ Resume(i, "as_room")
  /\ rooms' = AssignRoomUpdate(rooms, proc[i].pid, proc[i].rid)
  /\ LET lv == Mark(proc[i], rooms' # rooms)
     IN IF lv.op \in {"createPatient", "autoAllocate"}
        THEN AllocReturn(i, lv, "Patient successfully allocated to room")
        ELSE Done(i, Emit(lv), 200, "Patient assigned to room successfully")
  /\ UNCHANGED <<patients, nextPid, nextRid>>

\* the store rejects the room update: assignPatientToRoom rethrows
AssignRoomWriteFails(i) ==
  /\ Resume(i, "as_room")
  /\ IF proc[i].op \in {"createPatient", "autoAllocate"}
     THEN AllocReturn(i, proc[i], "Error during auto allocation")
     ELSE Done(i, proc[i], 500, "Internal server error")
  /\ UNCHANGED <<patients, rooms, nextPid, nextRid>>

(* ---------------------------------------------------------------------- *)
(* PriorityAllocator.releasePatientFromRoom                               *)
(* ---------------------------------------------------------------------- *)
ReleaseRead(i) ==
  /\ Resume(i, "rel_read")
  /\ IF ReleaseRejected(patients, proc[i].pid)
     THEN Done(i, proc[i], 500, "Internal server error")
     ELSE Goto(i, [proc[i] EXCEPT
                     !.relRid = patients[proc[i].pid].assignedRoom],
               "rel_patient")
  /\ UNCHANGED <<patients, rooms, nextPid, nextRid>>

ReleasePatientWrite(i) ==
  /\ Resume(i, "rel_patient")
  /\ patients' = ReleasePatientUpdate(patients, proc[i].pid, ops)
  /\ Goto(i, Mark(proc[i], patients' # patients), "rel_room")
  /\ UNCHANGED <<rooms, nextPid, nextRid>>

ReleaseRoomWrite(i) ==
  /\ Resume(i, "rel_room")
  /\ rooms' = ReleaseRoomUpdate(rooms, proc[i].relRid)
  /\ LET lv == Mark(proc[i], rooms' # rooms)
     IN IF lv.then = "assign"
        THEN Goto(i, lv, "as_patient")
        ELSE IF lv.op = "dischargePatient"
             THEN Done(i, Emit(lv), 200, "Patient discharged successfully")
             ELSE Done(i, Emit(lv), 200, "Room released successfully")
  /\ UNCHANGED <<patients, nextPid, nextRid>>

\* the store rejects the room update: releasePatientFromRoom rethrows
ReleaseRoomWriteFails(i) ==
  /\ Resume(i, "rel_room")
  /\ Done(i, proc[i], 500, "Internal server error")
  /\ UNCHANGED <<patients, rooms, nextPid, nextRid>>

(* ---------------------------------------------------------------------- *)
(* PatientController                                                      *)
(* ---------------------------------------------------------------------- *)
\* references a request body can carry: documents that exist
ExistingRooms == {r \in RoomIds : rooms[r].exists}
ExistingPatients == {p \in PatientIds : patients[p].exists}

TriggersAllocationUnlessDischarged(doc) ==
  doc.status # "Discharged"

\* createPatient: if (patient.status === 'Admitted')
TriggersAllocation(doc) ==
  doc.status = "Admitted"

\* createPatient: new Patient(req.body), save, then autoAllocateRoom when the
\* saved status is Admitted.  admissionDate is the rank of the insertion.
CreatePatient(i, condition, status, assignedRoom) ==
  /\ Begin(i)
  /\ nextPid < MaxPatients
  /\ LET id == nextPid + 1
         doc == NewPatient(condition, status, assignedRoom, id)
         lv == Mark(Req("createPatient", id, NULL), TRUE)
     IN /\ patients' = [patients EXCEPT ![id] = doc]
        /\ nextPid' = id
        /\ IF TriggersAllocation(doc)
           THEN Goto(i, lv, "aa_select")
           ELSE Done(i, lv, 201, "Patient created successfully")
  /\ UNCHANGED <<rooms, nextRid>>

\* createPatient continues in autoAllocateRoom
CreatePatientAllocate(i) ==
  /\ Resume(i, "aa_select")
  /\ SelectPatient(i, proc[i], patients)
  /\ UNCHANGED <<patients, rooms, nextPid, nextRid>>

\* autoAllocateRooms
AutoAllocateRooms(i) ==
  /\ Begin(i)
  /\ SelectPatient(i, Req("autoAllocate", NULL, NULL), patients)
  /\ UNCHANGED <<patients, rooms, nextPid, nextRid>>

\* autoAllocateRooms invoked again and again: the same first step, the clock
\* of the requests, which no step of an allocation reads, left as it is
AutoAllocateAgain(i) ==
  /\ proc[i].pc = "idle"
  /\ SelectPatient(i, Req("autoAllocate", NULL, NULL), patients)
  /\ UNCHANGED <<patients, rooms, nextPid, nextRid, ops>>

\* the fields of an update body that reach findByIdAndUpdate: the top-level
\* keys left after delete updates.assignedRoom, which the store sets, and the
\* keys under an update operator of the body ({"$set": {...}}), which the
\* delete does not look at and the store applies as well
ApplyPatientUpdates(doc, body) ==
  [doc EXCEPT
     !.condition = IF body.condition = Absent THEN @ ELSE body.condition,
     !.status = IF body.status = Absent THEN @ ELSE body.status,
     !.priority = IF body.priority = NULL THEN @ ELSE body.priority,
     !.assignedRoom = IF body.setAssignedRoom = NULL THEN @
                      ELSE body.setAssignedRoom]

NoPatientUpdates ==
  [condition |-> Absent, status |-> Absent, priority |-> NULL,
   setAssignedRoom |-> NULL]

BodyPriorities == {2}

PatientUpdateBodies ==
  {[NoPatientUpdates EXCEPT !.condition = c] : c \in Conditions}
  \cup {[NoPatientUpdates EXCEPT !.status = st] : st \in PatientStatuses}
  \cup {[NoPatientUpdates EXCEPT !.priority = n] : n \in BodyPriorities}
  \cup {[NoPatientUpdates EXCEPT !.setAssignedRoom = r] : r \in ExistingRooms}

\* updatePatient: delete updates.assignedRoom, findByIdAndUpdate
UpdatePatient(i, id, body) ==
  /\ Begin(i)
  /\ LET lv == Req("updatePatient", id, NULL)
     IN IF ~patients[id].exists
        THEN /\ Done(i, lv, 404, "Patient not found")
             /\ UNCHANGED patients
        ELSE /\ patients' = [patients EXCEPT
                               ![id] = ApplyPatientUpdates(@, body)]
             /\ Done(i, Emit(Mark(lv, patients' # patients)), 200,
                     "Patient updated successfully")
  /\ UNCHANGED <<rooms, nextPid, nextRid>>

\* dischargePatient: findById and the checks on the document
DischargePatient(i, id) ==
  /\ Begin(i)
  /\ LET lv == [Req("dischargePatient", id, NULL) EXCEPT
                  !.pid = id, !.then = "finish"]
     IN IF ~patients[id].exists
        THEN Done(i, lv, 404, "Patient not found")
        ELSE IF patients[id].status = "Discharged"
        THEN Done(i, lv, 400, "Patient is already discharged")
        ELSE IF patients[id].assignedRoom # NULL
        THEN Goto(i, lv, "rel_read")
        ELSE Goto(i, lv, "dp_save")
  /\ UNCHANGED <<patients, rooms, nextPid, nextRid>>

\* dischargePatient without a room: patient.save() of the two modified paths
DischargeSave(i) ==
  /\ Resume(i, "dp_save")
  /\ patients' = [patients EXCEPT ![proc[i].pid].status = "Discharged",
                                  ![proc[i].pid].dischargeDate = ops]
  /\ Done(i, Emit(Mark(proc[i], patients' # patients)), 200,
          "Patient discharged successfully")
  /\ UNCHANGED <<rooms, nextPid, nextRid>>

\* assignRoom: Patient.findById
AssignRoom(i, id, roomId) ==
  /\ Begin(i)
  /\ LET lv == [Req("assignRoom", id, roomId) EXCEPT
                  !.pid = id, !.rid = roomId, !.then = "assign",
                  !.ref = patients[id].assignedRoom,
                  !.status = patients[id].status]
     IN IF ~patients[id].exists
        THEN Done(i, lv, 404, "Patient not found")
        ELSE Goto(i, lv, "ar_room")
  /\ UNCHANGED <<patients, rooms, nextPid, nextRid>>

\* assignRoom: Room.findById and the availability check
AssignRoomCheckRoom(i) ==
  /\ Resume(i, "ar_room")
  /\ LET lv == proc[i]
     IN IF ~rooms[lv.rid].exists
        THEN Done(i, lv, 404, "Room not found")
        ELSE IF RoomNotAvailable(rooms[lv.rid])
        THEN Done(i, lv, 400, "Room is not available")
        ELSE IF lv.ref # NULL
        THEN Goto(i, lv, "rel_read")
        ELSE Goto(i, lv, "as_patient")
  /\ UNCHANGED <<patients, rooms, nextPid, nextRid>>

(* ---------------------------------------------------------------------- *)
(* RoomController                                                         *)
(* ---------------------------------------------------------------------- *)
\* createRoom: new Room(req.body), save; the unique index on roomNumber
\* rejects a duplicate
CreateRoom(i, roomNumber, type, floor, status, occupied, patientId) ==
  /\ Begin(i)
  /\ nextRid < MaxRooms
  /\ LET id == nextRid + 1
         lv == Req("createRoom", NULL, id)
     IN IF \E r \in RoomIds : rooms[r].exists /\ rooms[r].roomNumber = roomNumber
        THEN /\ Done(i, lv, 400, "Room number already exists")
             /\ UNCHANGED <<rooms, nextRid>>
        ELSE /\ rooms' = [rooms EXCEPT ![id] =
                            NewRoom(roomNumber, type, floor, status,
                                    occupied, patientId)]
             /\ nextRid' = id
             /\ Done(i, Emit(Mark(lv, TRUE)), 201,
                     "Room created successfully")
  /\ UNCHANGED <<patients, nextPid>>

\* what a createRoom body may say besides number, type and floor: nothing,
\* occupied: true, status: 'Maintenance', or the patientId of a patient
RoomBodyExtras ==
  {<<Absent, FALSE, NULL>>, <<Absent, TRUE, NULL>>,
   <<"Maintenance", FALSE, NULL>>}
  \cup {<<Absent, FALSE, p>> : p \in ExistingPatients}

\* the top-level keys left after delete updates.patientId and
\* updates.occupied, and the keys under an update operator of the body
ApplyRoomUpdates(doc, body) ==
  [doc EXCEPT
     !.type = IF body.type = Absent THEN @ ELSE body.type,
     !.floor = IF body.floor = NULL THEN @ ELSE body.floor,
     !.status = IF body.status = Absent THEN @ ELSE body.status,
     !.patientId = IF body.setPatientId = NULL THEN @ ELSE body.setPatientId]

NoRoomUpdates ==
  [type |-> Absent, floor |-> NULL, status |-> Absent, setPatientId |-> NULL]

RoomUpdateBodies ==
  {[NoRoomUpdates EXCEPT !.type = ty] : ty \in RoomTypes}
  \cup {[NoRoomUpdates EXCEPT !.floor = f] : f \in Floors}
  \cup {[NoRoomUpdates EXCEPT !.status = st] : st \in RoomStatuses}
  \cup {[NoRoomUpdates EXCEPT !.setPatientId = p] : p \in ExistingPatients}

\* updateRoom: delete updates.patientId and updates.occupied,
\* findByIdAndUpdate
UpdateRoom(i, id, body) ==
  /\ Begin(i)
  /\ LET lv == Req("updateRoom", NULL, id)
     IN IF ~rooms[id].exists
        THEN /\ Done(i, lv, 404, "Room not found")
             /\ UNCHANGED rooms
        ELSE /\ rooms' = [rooms EXCEPT ![id] = ApplyRoomUpdates(@, body)]
             /\ Done(i, Emit(Mark(lv, rooms' # rooms)), 200,
                     "Room updated successfully")
  /\ UNCHANGED <<patients, nextPid, nextRid>>

\* deleteRoom: findById and the occupied check
DeleteRoom(i, id) ==
  /\ Begin(i)
  /\ LET lv == [Req("deleteRoom", NULL, id) EXCEPT !.rid = id]
     IN IF ~rooms[id].exists
        THEN Done(i, lv, 404, "Room not found")
        ELSE IF rooms[id].occupied
        THEN Done(i, lv, 400, "Cannot delete occupied room")
        ELSE Goto(i, lv, "dr_delete")
  /\ UNCHANGED <<patients, rooms, nextPid, nextRid>>

\* deleteRoom: findByIdAndDelete
DeleteRoomDelete(i) ==
  /\ Resume(i, "dr_delete")
  /\ rooms' = [rooms EXCEPT ![proc[i].rid] = NoRoom]
  /\ Done(i, Emit(Mark(proc[i], rooms' # rooms)), 200,
          "Room deleted successfully")
  /\ UNCHANGED <<patients, nextPid, nextRid>>

\* assignPatient: Room.findById and the availability check
AssignPatient(i, id, patientId) ==
  /\ Begin(i)
  /\ LET lv == [Req("assignPatient", patientId, id) EXCEPT
                  !.pid = patientId, !.rid = id, !.then = "assign"]
     IN IF ~rooms[id].exists
        THEN Done(i, lv, 404, "Room not found")
        ELSE IF RoomNotAvailable(rooms[id])
        THEN Done(i, lv, 400, "Room is not available")
        ELSE Goto(i, lv, "ap_patient")
  /\ UNCHANGED <<patients, rooms, nextPid, nextRid>>

\* assignPatient: Patient.findById
AssignPatientCheckPatient(i) ==
  /\ Resume(i, "ap_patient")
  /\ LET lv == proc[i]
     IN IF ~patients[lv.pid].exists
        THEN Done(i, lv, 404, "Patient not found")
        ELSE IF patients[lv.pid].assignedRoom # NULL
        THEN Goto(i, [lv EXCEPT !.status = patients[lv.pid].status],
                  "rel_read")
        ELSE Goto(i, [lv EXCEPT !.status = patients[lv.pid].status],
                  "as_patient")
  /\ UNCHANGED <<patients, rooms, nextPid, nextRid>>

\* releaseRoom: Room.findById(id).populate('patientId') and the check
ReleaseRoom(i, id) ==
  /\ Begin(i)
  /\ LET lv == [Req("releaseRoom", NULL, id) EXCEPT !.then = "finish"]
     IN IF ~rooms[id].exists
        THEN Done(i, lv, 404, "Room not found")
        ELSE IF RoomNotOccupied(rooms[id], patients)
        THEN Done(i, lv, 400, "Room is not occupied")
        ELSE Goto(i, [lv EXCEPT !.pid = rooms[id].patientId], "rel_read")
  /\ UNCHANGED <<patients, rooms, nextPid, nextRid>>

\* setRoomStatus: findById and the two rejections
SetRoomStatus(i, id, status) ==
  /\ Begin(i)
  /\ LET lv == [Req("setRoomStatus", NULL, id) EXCEPT
                  !.rid = id, !.status = status]
     IN IF ~rooms[id].exists
        THEN Done(i, lv, 404, "Room not found")
        ELSE IF SetStatusRejected(rooms[id], status)
        THEN Done(i, lv, 400, "Cannot change room status")
        ELSE Goto(i, lv, "srs_update")
  /\ UNCHANGED <<patients, rooms, nextPid, nextRid>>

\* setRoomStatus: findByIdAndUpdate(id, {status})
SetRoomStatusUpdate(i) ==
  /\ Resume(i, "srs_update")
  /\ rooms' = IF rooms[proc[i].rid].exists
              THEN [rooms EXCEPT ![proc[i].rid].status = proc[i].status]
              ELSE rooms
  /\ Done(i, Emit(Mark(proc[i], rooms' # rooms)), 200,
          "Room status updated successfully")
  /\ UNCHANGED <<patients, nextPid, nextRid>>

\* getTransferSuggestions: suggestRoomTransfers and the response
GetTransferSuggestions(i) ==
  /\ Begin(i)
  /\ Done(i, [Req("getTransferSuggestions", NULL, NULL) EXCEPT
                !.suggestions = patientsInWrongRooms(patients, rooms)],
          200, "Transfer suggestions")
  /\ UNCHANGED <<patients, rooms, nextPid, nextRid>>

\* what req.query.unassignedOnly may be: the parameter omitted, or the
\* string of the URL
QueryValues == {Absent, "true", "false"}

\* a JavaScript value with its type, as === compares it
JsBoolean(v) == [type |-> "boolean", value |-> v]

JsString(v) == [type |-> "string", value |-> v]

\* const { unassignedOnly = true } = req.query
UnassignedOnlyOrDefault(q) ==
  IF q = Absent THEN JsBoolean("true") ELSE JsString(q)

\* getPatientsByPriority: the filter of Patient.find
PriorityFilter(P, unassignedOnly) ==
  {p \in PatientIds :
     /\ P[p].exists
     /\ P[p].status \in {"Admitted", "Pending"}
     /\ (unassignedOnly = JsString("true")) => P[p].assignedRoom = NULL}

\* .sort({ priority: 1, admissionDate: 1 }) of the documents S
RECURSIVE SortByPriority(_, _)
SortByPriority(P, S) ==
  IF S = {} THEN <<>>
  ELSE LET first == CHOOSE p \in S : \A q \in S : ~PatientBefore(P, q, p)
       IN <<first>> \o SortByPriority(P, S \ {first})

\* getPatientsByPriority: Patient.find(filter).sort(...)
GetPatientsByPriority(i, q) ==
  /\ Begin(i)
  /\ LET lv == [Req("getPatientsByPriority", NULL, NULL) EXCEPT
                 !.unassignedOnly = q]
         unassignedOnly == UnassignedOnlyOrDefault(q)
     IN Done(i, [lv EXCEPT !.queue =
                   SortByPriority(patients,
                                  PriorityFilter(patients, unassignedOnly))],
             200, "Patients by priority")
  /\ UNCHANGED <<patients, rooms, nextPid, nextRid>>

(* ---------------------------------------------------------------------- *)
(* Specifications                                                         *)
(* ---------------------------------------------------------------------- *)
\* a request that admits, allocates, assigns, releases or removes arrives
ArriveAllocation(i) ==
  \/ \E c \in Conditions, st \in PatientStatuses,
        ref \in {NULL} \cup ExistingRooms : CreatePatient(i, c, st, ref)
  \/ AutoAllocateRooms(i)
  \/ \E id \in PatientIds : DischargePatient(i, id)
  \/ \E id \in PatientIds, roomId \in RoomIds : AssignRoom(i, id, roomId)
  \/ \E id \in RoomIds : DeleteRoom(i, id)
  \/ \E id \in RoomIds, patientId \in PatientIds :
        AssignPatient(i, id, patientId)
  \/ \E id \in RoomIds : ReleaseRoom(i, id)
  \/ \E id \in RoomIds, st \in RoomStatuses : SetRoomStatus(i, id, st)

\* a request that creates a room, edits a document or asks for the transfer
\* suggestions or for the priority queue arrives
ArriveEdit(i) ==
  \/ \E id \in PatientIds, body \in PatientUpdateBodies :
        UpdatePatient(i, id, body)
  \/ \E n \in RoomNumbers, ty \in RoomTypes, f \in Floors,
        x \in RoomBodyExtras : CreateRoom(i, n, ty, f, x[1], x[2], x[3])
  \/ \E id \in RoomIds, body \in RoomUpdateBodies : UpdateRoom(i, id, body)
  \/ GetTransferSuggestions(i)
  \/ \E q \in QueryValues : GetPatientsByPriority(i, q)

\* a request in flight takes its next step
Continue(i) ==
  \/ CreatePatientAllocate(i)
  \/ AaFindExact(i)
  \/ AaFindICU(i)
  \/ AaFindFallback(i)
  \/ AssignPatientWrite(i)
  \/ AssignRoomWrite(i)
  \/ ReleaseRead(i)
  \/ ReleasePatientWrite(i)
  \/ ReleaseRoomWrite(i)
  \/ DischargeSave(i)
  \/ AssignRoomCheckRoom(i)
  \/ AssignPatientCheckPatient(i)
  \/ DeleteRoomDelete(i)
  \/ SetRoomStatusUpdate(i)
  \/ Respond(i)

\* the store fails under a request
Fail(i) ==
  \/ AssignRoomWriteFails(i)
  \/ ReleaseRoomWriteFails(i)

\* requests one at a time, the store never failing
SeqNext ==
  \/ AllIdle /\ ArriveAllocation(1)
  \/ AllIdle /\ ArriveEdit(1)
  \/ Continue(1)

SeqSpec == Init /\ [][SeqNext]_vars

\* concurrent requests on the seeded collections, over a store that may fail
Next ==
  \E i \in Procs :
    \/ ops < MaxConcurrentOps /\ ArriveAllocation(i)
    \/ Continue(i)
    \/ Fail(i)

Spec == SeedInit /\ [][Next]_vars

\* findBestAvailableRoom(roomType, patient) on its own: any Room collection
\* the schema admits, any roomType, a waiting patient of any condition
RoomDocs ==
  {NoRoom} \cup
  {NewRoom(n, ty, f, st, occ, NULL) :
     n \in RoomNumbers, ty \in RoomTypes, f \in Floors, st \in RoomStatuses,
     occ \in BOOLEAN}

FindInit ==
  /\ rooms \in {R \in [RoomIds -> RoomDocs] :
                  \A a, b \in RoomIds :
                    (a # b /\ R[a].exists /\ R[b].exists)
                    => R[a].roomNumber # R[b].roomNumber}
  /\ \E c \in Conditions :
       patients = [p \in PatientIds |->
                     IF p = 1 THEN NewPatient(c, Absent, NULL, 1)
                     ELSE NoPatient]
  /\ nextPid = 1
  /\ nextRid = MaxRooms
  /\ ops = 0
  /\ \E ty \in RoomTypes :
       proc = [i \in Procs |->
                 IF i = 1
                 THEN [Idle EXCEPT !.pc = "aa_find1", !.op = "autoAllocate",
                                   !.pid = 1, !.kind = patients[1].condition,
                                   !.status = patients[1].status,
                                   !.requiredRoomType = ty]
                 ELSE Idle]

FindNext ==
  \/ AaFindExact(1)
  \/ AaFindICU(1)
  \/ AaFindFallback(1)

FindSpec == FindInit /\ [][FindNext]_vars

\* autoAllocateRooms invoked repeatedly, nothing else in between, on a ward
\* of waiting patients and of rooms that are Available or in Cleaning
WardPatients ==
  {NoPatient} \cup
  {NewPatient(c, st, NULL, 0) : c \in Conditions, st \in {"Admitted", "Pending"}}

WardRooms ==
  {NoRoom} \cup
  {NewRoom(0, ty, f, st, FALSE, NULL) :
     ty \in RoomTypes, f \in Floors, st \in {"Available", "Cleaning"}}

AllocInit ==
  /\ \E P \in [PatientIds -> WardPatients] :
       patients = [p \in PatientIds |->
                     IF P[p].exists THEN [P[p] EXCEPT !.admissionDate = p]
                     ELSE NoPatient]
  /\ \E R \in [RoomIds -> WardRooms] :
       rooms = [r \in RoomIds |->
                  IF R[r].exists THEN [R[r] EXCEPT !.roomNumber = r]
                  ELSE NoRoom]
  /\ nextPid = MaxPatients
  /\ nextRid = MaxRooms
  /\ ops = 0
  /\ proc = [i \in Procs |-> Idle]

AllocNext ==
  \/ AutoAllocateAgain(1)
  \/ AaFindExact(1)
  \/ AaFindICU(1)
  \/ AaFindFallback(1)
  \/ AssignPatientWrite(1)
  \/ AssignRoomWrite(1)
  \/ Respond(1)

\* the invocations never stop coming and each one runs to its response
AllocSpec == AllocInit /\ [][AllocNext]_vars /\ WF_vars(AllocNext)

(* ---------------------------------------------------------------------- *)
(* Properties                                                             *)
(* ---------------------------------------------------------------------- *)
Responding(i) == proc[i].pc = "respond"

AssignOps == {"assignRoom", "assignPatient"}

Allocated(lv) == lv.alloc = "Patient successfully allocated to room"

\* the request has linked patient lv.pid to room lv.rid and reports success
AssignSucceeded(lv) ==
  \/ lv.op \in AssignOps /\ lv.code = 200
  \/ lv.op \in {"autoAllocate", "createPatient"} /\ Allocated(lv)

\* C1: two assign requests in flight together, for two different patients
\* and the same room that was Available and unoccupied when each arrived,
\* none of them hit by a store failure: exactly one answers success, the
\* other 'Room is not available', and exactly one patient has the room as
\* assignedRoom.
C1_ExactlyOneConcurrentAssignWins ==
  \A i, j \in Procs :
    ( /\ i # j
      /\ Responding(i) /\ Responding(j)
      /\ proc[i].op \in AssignOps /\ proc[j].op \in AssignOps
      /\ proc[i].b = proc[j].b /\ proc[i].a # proc[j].a
      /\ proc[i].room0 = "free" /\ proc[j].room0 = "free"
      /\ patients[proc[i].a].exists /\ patients[proc[j].a].exists
      /\ proc[i].code # 500 /\ proc[j].code # 500 )
    => /\ \/ /\ proc[i].code = 200
             /\ proc[j].message = "Room is not available"
          \/ /\ proc[j].code = 200
             /\ proc[i].message = "Room is not available"
       /\ Cardinality({p \in PatientIds :
                         patients[p].assignedRoom = proc[i].b}) = 1

\* the request failed inside assignPatientToRoom or releasePatientFromRoom
TransactionFailed(lv) ==
  lv.code = 500 \/ lv.alloc = "Error during auto allocation"

\* C2: an assign or release whose room update failed has left no half
\* link: not a patient that points to the room while the room does not
\* point back, nor a room that still points to the released patient.
C2_FailedTransactionLeavesNoHalfLink ==
  \A i \in Procs :
    (Responding(i) /\ TransactionFailed(proc[i]))
    => /\ ~( /\ proc[i].rid # NULL
             /\ patients[proc[i].pid].assignedRoom = proc[i].rid
             /\ rooms[proc[i].rid].patientId # proc[i].pid )
       /\ ~( /\ proc[i].relRid # NULL
             /\ patients[proc[i].pid].assignedRoom = NULL
             /\ rooms[proc[i].relRid].patientId = proc[i].pid )

\* C3: with no request in flight, p.assignedRoom = r exactly when
\* r.patientId = p, for every patient p and room r.
C3_LinkSymmetric ==
  AllIdle =>
    \A p \in PatientIds, r \in RoomIds :
      (patients[p].exists /\ patients[p].assignedRoom = r)
      <=> (rooms[r].exists /\ rooms[r].patientId = p)

\* C4: no patient is the patientId of two rooms.
C4_AtMostOneRoomPerPatient ==
  \A p \in PatientIds :
    Cardinality({r \in RoomIds : rooms[r].exists /\ rooms[r].patientId = p})
      <= 1

\* C5: every room has occupied = (patientId is not null), is in status
\* Occupied when occupied, and is unoccupied when in Maintenance or
\* Cleaning.
C5_RoomInvariant ==
  \A r \in RoomIds :
    rooms[r].exists =>
      /\ rooms[r].occupied <=> (rooms[r].patientId # NULL)
      /\ rooms[r].occupied => rooms[r].status = "Occupied"
      /\ rooms[r].status \in {"Maintenance", "Cleaning"} => ~rooms[r].occupied

\* C6: when an assign of patient p to room r succeeds, for p Admitted or
\* Pending before, p is Admitted with assignedRoom r, and r is occupied, in
\* status Occupied, with patientId p.
C6_AssignPostcondition ==
  \A i \in Procs :
    ( /\ Responding(i)
      /\ AssignSucceeded(proc[i])
      /\ proc[i].status \in {"Admitted", "Pending"} )
    => /\ patients[proc[i].pid].status = "Admitted"
       /\ patients[proc[i].pid].assignedRoom = proc[i].rid
       /\ rooms[proc[i].rid].occupied
       /\ rooms[proc[i].rid].status = "Occupied"
       /\ rooms[proc[i].rid].patientId = proc[i].pid

\* an assignRoom of a Pending patient and an allocation of an Admitted one
\* have succeeded
C6_Witness ==
  /\ Responding(1)
  /\ AssignSucceeded(proc[1])
  /\ proc[1].op = "assignRoom"
  /\ proc[1].status = "Pending"
  /\ rooms[proc[1].rid].patientId = proc[1].pid

\* the request has released room lv.relRid from patient lv.pid and reports
\* success
ReleaseSucceeded(lv) ==
  /\ lv.op \in {"releaseRoom", "dischargePatient"}
  /\ lv.code = 200
  /\ lv.relRid # NULL

\* C7: when a release of patient p from its room r succeeds, p is
\* Discharged with no assignedRoom and a dischargeDate, and r is unoccupied
\* with no patientId and in status Cleaning.
C7_ReleasePostcondition ==
  \A i \in Procs :
    (Responding(i) /\ ReleaseSucceeded(proc[i]))
    => /\ patients[proc[i].pid].status = "Discharged"
       /\ patients[proc[i].pid].assignedRoom = NULL
       /\ patients[proc[i].pid].dischargeDate # NULL
       /\ rooms[proc[i].relRid].exists =>
            /\ ~rooms[proc[i].relRid].occupied
            /\ rooms[proc[i].relRid].patientId = NULL
            /\ rooms[proc[i].relRid].status = "Cleaning"

\* releaseRoom has released a room
C7_Witness ==
  /\ Responding(1)
  /\ ReleaseSucceeded(proc[1])
  /\ proc[1].op = "releaseRoom"
  /\ rooms[proc[1].relRid].exists
  /\ rooms[proc[1].relRid].status = "Cleaning"

\* the assign request named a room that was occupied or not Available
AssignToBusyRoom(lv) ==
  lv.op \in AssignOps /\ lv.room0 = "busy"

C9_ReleaseRejections ==
  [][\A i \in Procs :
       /\ ( /\ proc[i].pc = "rel_read"
            /\ proc'[i] # proc[i]
            /\ \/ ~patients[proc[i].pid].exists
               \/ patients[proc[i].pid].assignedRoom = NULL )
          => /\ proc'[i].pc = "respond"
             /\ proc'[i].code = 500
             /\ ~proc'[i].wrote
             /\ patients' = patients /\ rooms' = rooms
       /\ ( /\ proc[i].pc = "idle"
            /\ proc'[i].op = "releaseRoom"
            /\ rooms[proc'[i].b].exists
            /\ ~rooms[proc'[i].b].occupied )
          => /\ proc'[i].pc = "respond"
             /\ proc'[i].code = 400
             /\ proc'[i].message = "Room is not occupied"
             /\ patients' = patients /\ rooms' = rooms]_vars

\* releaseRoom reached releasePatientFromRoom for a patient without a room
C9_Witness ==
  /\ Responding(1)
  /\ proc[1].op = "releaseRoom"
  /\ proc[1].code = 500
  /\ patients[proc[1].pid].exists
  /\ patients[proc[1].pid].assignedRoom = NULL

\* C10: every patient has priority 1 if Critical, 3 if Stable, 5 if Normal.
C10_PriorityDerivedFromCondition ==
  \A p \in PatientIds :
    patients[p].exists =>
      patients[p].priority =
        (CASE patients[p].condition = "Critical" -> 1
           [] patients[p].condition = "Stable" -> 3
           [] patients[p].condition = "Normal" -> 5)

\* the step of request i in which autoAllocateRoom runs
\* getHighestPriorityPatient: the first step of autoAllocateRooms, or the step
\* of createPatient after the save
Selecting(i) ==
  \/ proc[i].pc = "idle" /\ proc'[i].op = "autoAllocate"
  \/ proc[i].pc = "aa_select" /\ proc'[i].pc # "aa_select"

\* C11: the patient getHighestPriorityPatient returns is Admitted or Pending
\* and has no assignedRoom, and it returns none exactly when the collection
\* holds no such patient.
C11_SelectedPatientIsWaiting ==
  [][\A i \in Procs :
       Selecting(i) =>
         IF \E p \in PatientIds : /\ patients[p].exists
                                  /\ patients[p].status # "Discharged"
                                  /\ patients[p].assignedRoom = NULL
         THEN /\ proc'[i].pc = "aa_find1"
              /\ patients[proc'[i].pid].exists
              /\ patients[proc'[i].pid].status \in {"Admitted", "Pending"}
              /\ patients[proc'[i].pid].assignedRoom = NULL
         ELSE /\ proc'[i].pc = "respond"
              /\ proc'[i].alloc = "No unassigned patients found"]_vars

\* a patient was selected while a Discharged patient of a more urgent
\* priority was in the collection
C11_Witness ==
  /\ proc[1].pc = "aa_find1"
  /\ \E q \in PatientIds :
       /\ patients[q].exists
       /\ patients[q].status = "Discharged"
       /\ patients[q].priority < patients[proc[1].pid].priority

\* C12: when autoAllocateRoom has allocated a patient, no patient still
\* waiting has a lower priority number, or the same priority and an earlier
\* admissionDate.
C12_AllocatedPatientIsFirst ==
  \A i \in Procs :
    ( /\ Responding(i)
      /\ proc[i].op \in {"autoAllocate", "createPatient"}
      /\ Allocated(proc[i]) )
    => \A q \in PatientIds :
         ( /\ patients[q].exists
           /\ patients[q].status \in {"Admitted", "Pending"}
           /\ patients[q].assignedRoom = NULL )
         => /\ patients[q].priority >= patients[proc[i].pid].priority
            /\ patients[q].priority = patients[proc[i].pid].priority
                 => patients[q].admissionDate
                      >= patients[proc[i].pid].admissionDate

\* a patient was allocated while a patient of the same priority, admitted
\* later, keeps waiting
C12_Witness ==
  /\ Responding(1)
  /\ Allocated(proc[1])
  /\ \E q \in PatientIds :
       /\ patients[q].exists
       /\ patients[q].status \in {"Admitted", "Pending"}
       /\ patients[q].assignedRoom = NULL
       /\ patients[q].priority = patients[proc[1].pid].priority
       /\ patients[q].admissionDate > patients[proc[1].pid].admissionDate

\* findBestAvailableRoom of request i has returned: a room, or none
FindReturned(i) ==
  \/ proc[i].pc = "as_patient"
  \/ proc[i].pc = "respond" /\ proc[i].alloc = "No available rooms found"

FoundRoom(i) == proc[i].pc = "as_patient"

\* the Available, unoccupied rooms of the given types
Free(types) ==
  {r \in RoomIds : /\ rooms[r].exists
                   /\ rooms[r].type \in types
                   /\ rooms[r].status = "Available"
                   /\ ~rooms[r].occupied}

\* C13: when an Available, unoccupied room of the requested type exists,
\* findBestAvailableRoom returns one of them, of the lowest floor and among
\* those of the lowest room number; a returned room is always Available and
\* unoccupied.
C13_ExactTypeLowestFloorThenNumber ==
  \A i \in Procs :
    FindReturned(i) =>
      /\ Free({proc[i].requiredRoomType}) # {} =>
           /\ FoundRoom(i)
           /\ proc[i].rid \in Free({proc[i].requiredRoomType})
           /\ \A q \in Free({proc[i].requiredRoomType}) :
                \/ rooms[proc[i].rid].floor < rooms[q].floor
                \/ /\ rooms[proc[i].rid].floor = rooms[q].floor
                   /\ rooms[proc[i].rid].roomNumber <= rooms[q].roomNumber
      /\ FoundRoom(i) => proc[i].rid \in Free(RoomTypes)

\* a room was returned while another room of the requested type was free on
\* the same floor
C13_Witness ==
  /\ FoundRoom(1)
  /\ \E q \in Free({proc[1].requiredRoomType}) :
       /\ q # proc[1].rid
       /\ rooms[q].floor = rooms[proc[1].rid].floor
       /\ rooms[q].roomNumber > rooms[proc[1].rid].roomNumber

C15_NoWaitingPatientIsNoOp ==
  [][\A i \in Procs :
       ( /\ Selecting(i)
         /\ \A p \in PatientIds :
              \/ ~patients[p].exists
              \/ patients[p].status = "Discharged"
              \/ patients[p].assignedRoom # NULL )
       => /\ proc'[i].pc = "respond"
          /\ proc'[i].alloc = "No unassigned patients found"
          /\ proc'[i].op = "autoAllocate" =>
               /\ proc'[i].code = 200
               /\ proc'[i].message = "No unassigned patients found"
               /\ ~proc'[i].wrote
          /\ patients' = patients
          /\ rooms' = rooms]_vars

\* autoAllocateRooms found nobody waiting in a collection that holds
\* patients
C15_Witness ==
  /\ Responding(1)
  /\ proc[1].op = "autoAllocate"
  /\ proc[1].alloc = "No unassigned patients found"
  /\ \E p \in PatientIds : patients[p].exists /\ patients[p].assignedRoom # NULL
  /\ \E p \in PatientIds : patients[p].exists /\ patients[p].status = "Discharged"

\* C16: when autoAllocateRoom returns an outcome that is not a success, the
\* request has changed no document.
C16_FailedAllocationChangesNothing ==
  \A i \in Procs :
    ( /\ Responding(i)
      /\ proc[i].op = "autoAllocate"
      /\ ~Allocated(proc[i]) )
    => ~proc[i].wrote

\* C17: a patient whose status is Discharged stays Discharged and is given
\* no assignedRoom, whatever request runs.
C17_DischargedIsTerminal ==
  [][\A p \in PatientIds :
       (patients[p].exists /\ patients[p].status = "Discharged")
       => /\ patients'[p].status = "Discharged"
          /\ patients'[p].assignedRoom \in {NULL, patients[p].assignedRoom}]_vars

\* the step of request i is the store update of updatePatient, of
\* updateRoom, of setRoomStatus
UpdatingPatient(i) == proc[i].pc = "idle" /\ proc'[i].op = "updatePatient"

UpdatingRoom(i) ==
  \/ proc[i].pc = "idle" /\ proc'[i].op = "updateRoom"
  \/ proc[i].pc = "srs_update" /\ proc'[i].pc # "srs_update"

\* C18: updatePatient leaves the assignedRoom of every patient as it was,
\* and updateRoom and setRoomStatus leave the patientId and the occupied flag
\* of every room as they were, whatever the request body.
C18_UpdatesKeepTheLink ==
  [][\A i \in Procs :
       /\ UpdatingPatient(i) =>
            \A p \in PatientIds :
              patients'[p].assignedRoom = patients[p].assignedRoom
       /\ UpdatingRoom(i) =>
            \A r \in RoomIds :
              /\ rooms'[r].patientId = rooms[r].patientId
              /\ rooms'[r].occupied = rooms[r].occupied]_vars

\* C19: a room that a release has put in status Cleaning is given no
\* patient by assignPatientToRoom, called by an assign request or by
\* autoAllocateRoom, as long as its status is Cleaning.
C19_NoAssignIntoCleaningRoom ==
  [][\A i, j \in Procs :
       ( /\ Responding(i)
         /\ ReleaseSucceeded(proc[i])
         /\ proc[j].pc = "as_room"
         /\ proc[j].rid = proc[i].relRid
         /\ rooms[proc[j].rid].exists
         /\ rooms[proc[j].rid].status = "Cleaning" )
       => rooms'[proc[j].rid].patientId = NULL]_vars

\* C20: suggestRoomTransfers changes no patient and no room, and returns
\* exactly the patients whose assignedRoom is a room of a type other than
\* determineRoomType of their condition.
C20_SuggestionsAreAdvisoryAndExact ==
  [][\A i \in Procs :
       (proc[i].pc = "idle" /\ proc'[i].op = "getTransferSuggestions")
       => /\ patients' = patients
          /\ rooms' = rooms
          /\ proc'[i].suggestions =
               {p \in PatientIds :
                  /\ patients[p].exists
                  /\ patients[p].assignedRoom # NULL
                  /\ rooms[patients[p].assignedRoom].exists
                  /\ rooms[patients[p].assignedRoom].type
                       # determineRoomType(patients[p].condition)}]_vars

\* the suggestions name a patient who is not Critical and holds a Private
\* room
C20_Witness ==
  /\ Responding(1)
  /\ proc[1].op = "getTransferSuggestions"
  /\ \E p \in proc[1].suggestions :
       /\ patients[p].condition # "Critical"
       /\ rooms[patients[p].assignedRoom].type = "Private"
       /\ rooms[patients[p].assignedRoom].patientId = p

\* the requests that change documents
MutatingOps ==
  {"createPatient", "autoAllocate", "updatePatient", "dischargePatient",
   "assignRoom", "createRoom", "updateRoom", "deleteRoom", "assignPatient",
   "releaseRoom", "setRoomStatus"}

\* the request reports success: a 2xx answer, for autoAllocateRooms one that
\* says success
RequestSucceeded(lv) ==
  /\ lv.code \in {200, 201}
  /\ lv.op = "autoAllocate" => Allocated(lv)

\* C21: a request that changes documents and succeeds has emitted exactly
\* one event when it answers, and one that is rejected or fails has emitted
\* none.
C21_OneEventPerSuccessfulMutation ==
  \A i \in Procs :
    (Responding(i) /\ proc[i].op \in MutatingOps)
    => proc[i].events = IF RequestSucceeded(proc[i]) THEN 1 ELSE 0

\* request i is a createPatient past its save and takes a step
CreatePatientStep(i, pcs) ==
  /\ proc[i].op = "createPatient"
  /\ proc[i].pc \in pcs
  /\ proc'[i] # proc[i]

\* C22: createPatient saves the new patient and changes nothing else; it
\* goes on to autoAllocateRoom exactly when the saved status is Admitted, and
\* answers at once otherwise; the allocation changes one patient, who is
\* waiting and first by priority and admissionDate, then one room, and the
\* request answers.
C22_CreatePatientAllocatesIffAdmitted ==
  [][\A i \in Procs :
       /\ (proc[i].pc = "idle" /\ proc'[i].op = "createPatient")
          => /\ rooms' = rooms
             /\ \A p \in PatientIds \ {proc'[i].a} : patients'[p] = patients[p]
             /\ IF patients'[proc'[i].a].status = "Admitted"
                THEN proc'[i].pc = "aa_select"
                ELSE proc'[i].pc = "respond" /\ proc'[i].alloc = "none"
       /\ CreatePatientStep(i, {"aa_select", "aa_find1", "aa_find2", "aa_find3"})
          => patients' = patients /\ rooms' = rooms
       /\ CreatePatientStep(i, {"as_patient"})
          => /\ rooms' = rooms
             /\ \A p \in PatientIds \ {proc[i].pid} : patients'[p] = patients[p]
             /\ patients[proc[i].pid].status \in {"Admitted", "Pending"}
             /\ patients[proc[i].pid].assignedRoom = NULL
             /\ \A q \in PatientIds :
                  ( /\ patients[q].exists
                    /\ patients[q].status \in {"Admitted", "Pending"}
                    /\ patients[q].assignedRoom = NULL )
                  => \/ patients[q].priority > patients[proc[i].pid].priority
                     \/ /\ patients[q].priority = patients[proc[i].pid].priority
                        /\ patients[q].admissionDate
                             >= patients[proc[i].pid].admissionDate
       /\ CreatePatientStep(i, {"as_room"})
          => /\ patients' = patients
             /\ \A r \in RoomIds \ {proc[i].rid} : rooms'[r] = rooms[r]
             /\ proc'[i].pc = "respond"]_vars

\* the allocation run by createPatient went to a patient admitted earlier,
\* not to the one just created
C22_Witness ==
  /\ Responding(1)
  /\ proc[1].op = "createPatient"
  /\ Allocated(proc[1])
  /\ proc[1].pid # proc[1].a
  /\ patients[proc[1].a].assignedRoom = NULL

\* C23: when a deleteRoom of a room and an assign or allocation into the
\* same room are in flight together and both report success, the patient
\* does not have the deleted room as assignedRoom.
C23_NoPatientInDeletedRoom ==
  \A i, j \in Procs :
    ( /\ Responding(i)
      /\ proc[i].op = "deleteRoom"
      /\ proc[i].code = 200
      /\ Responding(j)
      /\ AssignSucceeded(proc[j])
      /\ proc[j].rid = proc[i].rid
      /\ ~rooms[proc[i].rid].exists )
    => patients[proc[j].pid].assignedRoom # proc[i].rid

IsWaiting(p) ==
  /\ patients[p].exists
  /\ patients[p].status \in {"Admitted", "Pending"}
  /\ patients[p].assignedRoom = NULL

\* findBestAvailableRoom would return a room for patient p
RoomFor(p) ==
  \/ Free({determineRoomType(patients[p].condition)}) # {}
  \/ patients[p].condition = "Critical" /\ Free({"ICU"}) # {}
  \/ patients[p].condition # "Critical" /\ Free({"General", "Private"}) # {}

\* no waiting patient comes before p by priority, then admissionDate
IsFirst(p) ==
  \A q \in PatientIds :
    IsWaiting(q) =>
      \/ patients[q].priority > patients[p].priority
      \/ /\ patients[q].priority = patients[p].priority
         /\ patients[q].admissionDate >= patients[p].admissionDate

\* C25 as stated: under repeated autoAllocate invocations no patient stays
\* waiting forever while findBestAvailableRoom would return a room for it.
C25_WaitingPatientWithRoomIsServed ==
  \A p \in PatientIds : []<>~(IsWaiting(p) /\ RoomFor(p))

\* C25 amended: under repeated autoAllocate invocations the first waiting
\* patient, by priority then admissionDate, does not stay waiting forever
\* while findBestAvailableRoom would return a room for it; and an invocation
\* that has selected a patient for whom no room would be returned goes to
\* its answer without changing a patient or a room, so that nobody behind
\* is allocated.
C25_FirstWaitingPatientIsServed ==
  /\ \A p \in PatientIds :
       []<>~(IsWaiting(p) /\ IsFirst(p) /\ RoomFor(p))
  /\ [][\A i \in Procs :
          ( /\ proc[i].pc \in {"aa_find1", "aa_find2", "aa_find3"}
            /\ ~RoomFor(proc[i].pid) )
          => /\ patients' = patients
             /\ rooms' = rooms
             /\ proc'[i].pc \in {"aa_find2", "aa_find3", "respond"}
             /\ ~proc'[i].wrote]_vars

\* an invocation has allocated the first waiting patient, and another
\* invocation has then found no room for the next one while a patient
\* behind, for whom there is a room, keeps waiting
C25_Witness ==
  /\ Responding(1)
  /\ proc[1].alloc = "No available rooms found"
  /\ \E p \in PatientIds : patients[p].exists /\ patients[p].assignedRoom # NULL
  /\ \E q \in PatientIds : IsWaiting(q) /\ RoomFor(q) /\ ~IsFirst(q)

AllocationOps == {"autoAllocate", "createPatient"}

\* C26: two autoAllocateRoom invocations in flight together (each from the
\* explicit trigger or from an admission) never both report a successful
\* allocation of the same patient, nor of the same room.
C26_ConcurrentAllocationsAreDistinct ==
  \A i, j \in Procs :
    ( /\ i # j
      /\ Responding(i) /\ Responding(j)
      /\ proc[i].op \in AllocationOps /\ proc[j].op \in AllocationOps
      /\ Allocated(proc[i]) /\ Allocated(proc[j]) )
    => /\ proc[i].pid # proc[j].pid
       /\ proc[i].rid # proc[j].rid

\* C27: in every reachable state a Discharged patient holds no room: its
\* assignedRoom is null and no room's patientId refers to it.
C27_DischargedHoldsNoRoom ==
  \A p \in PatientIds :
    (patients[p].exists /\ patients[p].status = "Discharged")
    => /\ patients[p].assignedRoom = NULL
       /\ \A r \in RoomIds : rooms[r].exists => rooms[r].patientId # p

\* C28: in every reachable state an Admitted or Pending patient has no
\* dischargeDate, also after a move to another room by assignRoom or
\* assignPatient (release of the old room, then assign).
C28_AdmittedHasNoDischargeDate ==
  \A p \in PatientIds :
    (patients[p].exists /\ patients[p].status \in {"Admitted", "Pending"})
    => patients[p].dischargeDate = NULL

\* C29: in every reachable state a room whose status is 'Occupied' is
\* occupied and has a patientId; setRoomStatus never puts an empty room into
\* status 'Occupied'.
C29_OccupiedStatusMeansOccupied ==
  \A r \in RoomIds :
    (rooms[r].exists /\ rooms[r].status = "Occupied")
    => rooms[r].occupied /\ rooms[r].patientId # NULL

\* the set of the patients of a list
Listed(queue) == {queue[k] : k \in 1..Len(queue)}

\* C30: getPatientsByPriority returns patients whose status is Admitted or
\* Pending, in the order of (priority, admissionDate) ascending; and with
\* unassignedOnly omitted the default true applies: the list holds exactly
\* the patients with no assignedRoom, as it does with unassignedOnly=true.
C30_PriorityQueueDefaultsToUnassigned ==
  \A i \in Procs :
    (Responding(i) /\ proc[i].op = "getPatientsByPriority")
    => LET queue == proc[i].queue
       IN /\ \A k \in 1..Len(queue) :
               /\ patients[queue[k]].exists
               /\ patients[queue[k]].status \in {"Admitted", "Pending"}
          /\ \A k, l \in 1..Len(queue) :
               k < l => /\ queue[k] # queue[l]
                        /\ ~PatientBefore(patients, queue[l], queue[k])
          /\ proc[i].unassignedOnly \in {Absent, "true"}
               => Listed(queue) = Waiting(patients)

=============================================================================
